---- MODULE Spec2Model ----
(***************************************************************************)
(* ParameterStatistics (pytorch_pfn_extras/training/extensions/            *)
(* parameter_statistics.py): a training extension that, on every           *)
(* invocation, computes statistics of the parameters of some modules,      *)
(* adds them to a summary, and reports the summary's means when its        *)
(* trigger fires.                                                          *)
(*                                                                         *)
(* Strings are sequences of symbols: a symbol is the separator "/" or a    *)
(* word that holds no separator, so concatenation is \o and a substring    *)
(* is a run of consecutive symbols.  A scalar is an integer or NaN.  A     *)
(* statistic's value is a record: a torch.Tensor with its elements in      *)
(* flattened order, or a Python float.                                     *)
(***************************************************************************)
EXTENDS Integers, Sequences, FiniteSets, TLC

VARIABLES
    given,      \* the arguments each instance was constructed with
    inst,       \* the ParameterStatistics objects, by instance number
    heap,       \* the dict objects that hold statistics registries, by address
    model,      \* the parameters of the host's modules (borrowed, read only)
    sink,       \* what reporting.report has received, oldest first
    window,     \* per instance: the mappings added to _summary since it was created
    last,       \* per instance: its latest invocation (what it read, what it made)
    registered, \* per instance: the registrations made, in order
    budget      \* operations the host still performs

vars == <<given, inst, heap, model, sink, window, last, registered, budget>>

\* ------------------------------------------------------------------ bounds

\* The largest period N of the interval trigger.
MaxInterval == 2
\* Invocations of __call__ in one run.
MaxCalls == 3
\* What the host does besides in one run: calls of register_statistics and
\* training iterations.
MaxHost == 1
\* Invocations in a run that looks at the keys of one invocation.
KeyCalls == 1

\* ----------------------------------------------------------------- strings

Slash == "/"

Str(w) == <<w>>

\* '{}/{}'.format(a, b)
Join(a, b) == a \o <<Slash>> \o b

\* s holds the run of symbols sub.
Contains(s, sub) ==
    \E k \in 0..(Len(s) - Len(sub)) :
        \A j \in 1..Len(sub) : s[k + j] = sub[j]

\* s ends with the symbols of suffix.
EndsWith(s, suffix) ==
    /\ Len(suffix) <= Len(s)
    /\ \A j \in 1..Len(suffix) : s[Len(s) - Len(suffix) + j] = suffix[j]

\* Optional values: Python's None, or a value.
None == [some |-> FALSE, val |-> <<>>]

Some(v) == [some |-> TRUE, val |-> v]

\* ----------------------------------------------------------------- scalars

\* A floating-point scalar: a number or NaN.
Num(x) == [nan |-> FALSE, v |-> x]

NaN == [nan |-> TRUE, v |-> 0]

IsNaN(x) == x.nan

\* Floating-point addition: NaN absorbs.
Add(x, y) == IF IsNaN(x) \/ IsNaN(y) THEN NaN ELSE Num(x.v + y.v)

Nums(s) == [j \in 1..Len(s) |-> Num(s[j])]

RECURSIVE SumSeq(_)
SumSeq(s) == IF s = <<>> THEN Num(0) ELSE Add(Head(s), SumSeq(Tail(s)))

RECURSIVE Flatten(_)
Flatten(ss) == IF ss = <<>> THEN <<>> ELSE Head(ss) \o Flatten(Tail(ss))

\* torch.isnan(params).any()
AnyNaN(t) == \E j \in 1..Len(t) : IsNaN(t[j])

\* A torch.Tensor holding elems (a 0-dim tensor holds one element).
Tensor(elems) == [tensor |-> TRUE, elems |-> elems]

\* A Python float.
PyFloat(x) == [tensor |-> FALSE, elems |-> <<x>>]

\* value.numel()
Numel(value) == Len(value.elems)

\* ------------------------------------------------------ statistics functions

\* The functions a registry can hold, by what they compute.  "mean", "min",
\* "max" and "zeros" are those of _default_statistics ('std' is left out: its
\* values are irrational); "flat" is a caller's function that returns several
\* numbers, here the flattened tensor itself; "fail" is a caller's function
\* that raises.
Smallest(t) == CHOOSE x \in {t[j].v : j \in 1..Len(t)} : \A j \in 1..Len(t) : x <= t[j].v

Largest(t) == CHOOSE x \in {t[j].v : j \in 1..Len(t)} : \A j \in 1..Len(t) : x >= t[j].v

\* What a call of a function that raises gives.
Raised == [tensor |-> FALSE, elems |-> <<>>]

\* function(params): the function named fn applied to the flattened tensor t.
\* The tensors of the model below have means that are whole numbers.
Apply(fn, t) ==
    CASE fn = "mean" -> Tensor(<<IF AnyNaN(t) THEN NaN ELSE Num(SumSeq(t).v \div Len(t))>>)
      [] fn = "min" -> Tensor(<<IF AnyNaN(t) THEN NaN ELSE Num(Smallest(t))>>)
      [] fn = "max" -> Tensor(<<IF AnyNaN(t) THEN NaN ELSE Num(Largest(t))>>)
      [] fn = "zeros" -> Tensor(<<Num(Cardinality({j \in 1..Len(t) : t[j] = Num(0)}))>>)
      [] fn = "flat" -> Tensor(t)
      [] fn = "fail" -> Raised

\* An ordered dict of statistics functions: <<name, function>> pairs in
\* insertion order, names being strings.
DictNames(d) == {d[j][1] : j \in 1..Len(d)}

DictGet(d, name) == d[CHOOSE j \in 1..Len(d) : d[j][1] = name][2]

\* d[name] = function: an existing name keeps its place.
DictSet(d, name, function) ==
    IF name \in DictNames(d)
    THEN [j \in 1..Len(d) |-> IF d[j][1] = name THEN <<name, function>> ELSE d[j]]
    ELSE Append(d, <<name, function>>)

\* _default_statistics
DefaultStatistics ==
    << <<Str("mean"), "mean">>, <<Str("min"), "min">>,
       <<Str("max"), "max">>, <<Str("zeros"), "zeros">> >>

\* ------------------------------------------------------------ host's modules

\* The modules of the host and the names link.named_parameters() yields, in
\* order.  Module 1 has W (2 elements) and b (1 element), module 2 has W
\* (3 elements).
ModuleParams == << <<Str("W"), Str("b")>>, <<Str("W")>> >>

\* The values of the parameters as constructed.
InitialData == << <<Nums(<<0, 2>>), Nums(<<1>>)>>, <<Nums(<<3, 0, 3>>)>> >>

\* The parameters of the modules with data d and gradients g (None before
\* the first backward pass).
ModelOf(d, g) ==
    [m \in 1..Len(ModuleParams) |->
        [p \in 1..Len(ModuleParams[m]) |->
            [data |-> Some(d[m][p]),
             grad |-> IF g.some THEN Some(g.val[m][p]) ELSE None]]]

\* -------------------------------------------------------------- flat mapping

\* A Python dict keyed by strings, as a function.
EmptyMap == [k \in {} |-> NaN]

\* m[k] = v
MapSet(m, k, v) == (k :> v) @@ m

\* ------------------------------------------------------- summary and trigger

\* reporting.DictSummary(): per key the sum x and the count n of the scalars
\* added.
DictSummary == EmptyMap

\* DictSummary.add(d): every scalar of d is added to its key's sum.
SummaryAdd(summary, d) ==
    LET scalars == {k \in DOMAIN d : Numel(d[k]) = 1}
    IN  [k \in DOMAIN summary \cup scalars |->
            IF k \notin scalars THEN summary[k]
            ELSE IF k \in DOMAIN summary
                 THEN [x |-> Add(summary[k].x, d[k].elems[1]), n |-> summary[k].n + 1]
                 ELSE [x |-> d[k].elems[1], n |-> 1]]

\* DictSummary.compute_mean(): per key the mean x / n, kept as the fraction.
ComputeMean(summary) ==
    [k \in DOMAIN summary |-> [num |-> summary[k].x, den |-> summary[k].n]]

\* trigger_module.get_trigger((n, 'iteration')): fires on every n-th call.
GetTrigger(n) == [period |-> n, count |-> 0]

\* self._trigger(manager)
TriggerFires(trigger) == trigger.count + 1 = trigger.period

TriggerAfter(trigger) ==
    [trigger EXCEPT !.count = IF TriggerFires(trigger) THEN 0 ELSE @ + 1]

\* ---------------------------------------------------------------- constructor

DefaultAddr == "default_statistics"

CallerAddr == "caller"

InstAddr(i) == IF i = 1 THEN "self1" ELSE "self2"

\* The mapping a caller passes as statistics.
CallerStatistics == << <<Str("zeros"), "zeros">>, <<Str("flat"), "flat">> >>

\* links: one module, or a list of modules.
NormalizeLinks(links) == IF links.list THEN links.mods ELSE <<links.mods[1]>>

\* statistics, with None and 'default' resolved: the dict it names.
ResolveStatistics(statistics, h) ==
    CASE statistics = "none" -> <<>>
      [] statistics = "default" -> h[DefaultAddr]
      [] statistics = "dict" -> h[CallerAddr]

\* The address of the dict that self._statistics names: dict(statistics) is
\* a new dict of instance i.
AliasedAddr(i, statistics) ==
    CASE statistics = "none" -> InstAddr(i)
      [] statistics = "default" -> DefaultAddr
      [] statistics = "dict" -> CallerAddr

RegistryAddr(i, statistics) == InstAddr(i)

\* attrs, from report_params and report_grads.
AttrsWithGrad(report_params, report_grads) ==
    (IF report_params THEN <<Str("data")>> ELSE <<>>) \o <<Str("grad")>>

Attrs(report_params, report_grads) ==
    (IF report_params THEN <<Str("data")>> ELSE <<>>)
        \o (IF report_grads THEN <<Str("grad")>> ELSE <<>>)

\* ParameterStatistics.__init__: the fields of instance i.
New(i, args) ==
    [_links |-> NormalizeLinks(args.links),
     _statistics |-> RegistryAddr(i, args.statistics),
     _attrs |-> Attrs(args.report_params, args.report_grads),
     _prefix |-> args.prefix,
     _trigger |-> GetTrigger(args.trigger),
     _summary |-> DictSummary,
     _skip_nan_params |-> args.skip_nan_params]

\* The heap after the instances are constructed from argss.
HeapAfterNew(argss) ==
    LET h0 == [a \in {DefaultAddr, CallerAddr} |->
                  IF a = DefaultAddr THEN DefaultStatistics ELSE CallerStatistics]
    IN  [a \in {DefaultAddr, CallerAddr} \cup {InstAddr(i) : i \in DOMAIN argss} |->
            IF a \in DOMAIN h0 THEN h0[a]
            ELSE LET i == CHOOSE i \in DOMAIN argss : InstAddr(i) = a
                 IN  ResolveStatistics(argss[i].statistics, h0)]

\* ------------------------------------------------------------------ __call__

\* getattr(param, attr_name)
GetAttr(param, attr_name) ==
    IF attr_name = Str("data") THEN param.data ELSE param.grad

\* The value of one statistic: NaN for a tensor with a NaN when such
\* parameters are skipped, else function(params).
StatValueNoSkip(skip_nan_params, params, function) == Apply(function, params)

StatValue(skip_nan_params, params, function) ==
    IF skip_nan_params /\ AnyNaN(params)
    THEN PyFloat(NaN)
    ELSE Apply(function, params)

\* report_key_template.format(prefix=self._prefix + '/' if self._prefix
\* else '', ...): an empty prefix is falsy, like None.
ReportKeyAlwaysPrefixed(prefix, param_name, attr_name, function_name) ==
    prefix.val \o <<Slash>> \o param_name \o <<Slash>> \o attr_name
        \o <<Slash>> \o function_name

ReportKey(prefix, param_name, attr_name, function_name) ==
    (IF prefix.some /\ prefix.val # <<>> THEN prefix.val \o <<Slash>> ELSE <<>>)
        \o param_name \o <<Slash>> \o attr_name \o <<Slash>> \o function_name

\* '{}/{}'.format(key, i)
IndexKey(key, i) == Join(key, Str(ToString(i)))

\* The keys one statistic is stored under: indexed ones for a tensor of
\* several elements, else the key itself.
KeysOf(key, value) ==
    IF value.tensor /\ Numel(value) > 1
    THEN {IndexKey(key, i) : i \in 0..(Numel(value) - 1)}
    ELSE {key}

\* {'{}/{}'.format(key, i): v for i, v in enumerate(value)}
Enumerated(key, value) ==
    [x \in KeysOf(key, value) |->
        LET i == CHOOSE i \in 0..(Numel(value) - 1) : x = IndexKey(key, i)
        IN  Tensor(<<value.elems[i + 1]>>)]

\* statistics.update(...) or statistics[key] = value, keeping an earlier
\* entry of the same key.
StoreKeepFirst(statistics, key, value) ==
    IF value.tensor /\ Numel(value) > 1
    THEN statistics @@ Enumerated(key, value)
    ELSE IF key \in DOMAIN statistics THEN statistics
         ELSE MapSet(statistics, key, value)

\* statistics.update({'{}/{}'.format(key, i): v for i, v in enumerate(value)})
\* for a tensor of several elements, else statistics[key] = value.
Store(statistics, key, value) ==
    IF value.tensor /\ Numel(value) > 1
    THEN Enumerated(key, value) @@ statistics
    ELSE MapSet(statistics, key, value)

\* What the innermost loop body works on in one pass.
Item(self, registry, l, p, a, f) ==
    [link |-> l,
     m |-> self._links[l],
     p |-> p,
     a |-> a,
     f |-> f,
     param_name |-> ModuleParams[self._links[l]][p],
     attr_name |-> self._attrs[a],
     function_name |-> registry[f][1],
     function |-> registry[f][2]]

\* One pass of the innermost loop body on the local statistics of st. It
\* raises when the attribute is absent (None has no flatten()) or the function
\* raises; emitted lists the passes that were made.
Pass(self, mdl, it, st) ==
    LET attr == GetAttr(mdl[it.m][it.p], it.attr_name)
    IN  IF ~attr.some
        THEN [st EXCEPT !.raised = TRUE]
        ELSE LET params == attr.val
                 value == StatValue(self._skip_nan_params, params, it.function)
                 key == ReportKey(self._prefix, it.param_name,
                                  it.attr_name, it.function_name)
             IN  IF value = Raised
                 THEN [st EXCEPT !.raised = TRUE]
                 ELSE [raised |-> FALSE,
                       statistics |-> Store(st.statistics, key, value),
                       emitted |-> Append(st.emitted,
                                          [item |-> it, params |-> params,
                                           key |-> key, value |-> value])]

\* for function_name, function in self._statistics.items(), from the f-th on
RECURSIVE LoopFunctions(_, _, _, _, _, _, _, _)
LoopFunctions(self, mdl, registry, l, p, a, f, st) ==
    IF st.raised \/ f > Len(registry)
    THEN st
    ELSE LoopFunctions(self, mdl, registry, l, p, a, f + 1,
                       Pass(self, mdl, Item(self, registry, l, p, a, f), st))

\* for attr_name in self._attrs, from the a-th on
RECURSIVE LoopAttrs(_, _, _, _, _, _, _)
LoopAttrs(self, mdl, registry, l, p, a, st) ==
    IF st.raised \/ a > Len(self._attrs)
    THEN st
    ELSE LoopAttrs(self, mdl, registry, l, p, a + 1,
                   LoopFunctions(self, mdl, registry, l, p, a, 1, st))

\* for param_name, param in link.named_parameters(), from the p-th on
RECURSIVE LoopParams(_, _, _, _, _, _)
LoopParams(self, mdl, registry, l, p, st) ==
    IF st.raised \/ p > Len(ModuleParams[self._links[l]])
    THEN st
    ELSE LoopParams(self, mdl, registry, l, p + 1,
                    LoopAttrs(self, mdl, registry, l, p, 1, st))

\* for link in self._links, from the l-th on
RECURSIVE LoopLinks(_, _, _, _, _)
LoopLinks(self, mdl, registry, l, st) ==
    IF st.raised \/ l > Len(self._links)
    THEN st
    ELSE LoopLinks(self, mdl, registry, l + 1,
                   LoopParams(self, mdl, registry, l, 1, st))

\* The loops, from statistics = {}: the local statistics when they end, or
\* when a pass raises.
Collect(self, registry, mdl) ==
    LoopLinks(self, mdl, registry, 1,
              [raised |-> FALSE, statistics |-> EmptyMap, emitted |-> <<>>])

\* self._summary after the trigger was asked: a new DictSummary when it fired.
SummaryKept(summary, fired) == summary

SummaryAfterTrigger(summary, fired) == IF fired THEN DictSummary ELSE summary

\* The object after an invocation that raised: statistics is a local, and
\* self._summary.add comes after the loops.
AfterRaiseMerged(self, statistics) ==
    [self EXCEPT !._summary = SummaryAdd(@, statistics)]

AfterRaise(self, statistics) == self

\* The object after an invocation that did not raise.
AfterCall(self, statistics) ==
    [self EXCEPT
        !._summary = SummaryAfterTrigger(SummaryAdd(@, statistics),
                                         TriggerFires(self._trigger)),
        !._trigger = TriggerAfter(@)]

\* ParameterStatistics.__call__ of instance i.
Call(i) ==
    /\ budget.calls > 0
    /\ LET self == inst[i]
           r == Collect(self, heap[self._statistics], model)
           fired == TriggerFires(self._trigger)
       IN  /\ last' = [last EXCEPT ![i] =
                          [seq |-> last[i].seq + 1, raised |-> r.raised,
                           statistics |-> r.statistics, emitted |-> r.emitted,
                           registry |-> heap[self._statistics], model |-> model,
                           summary |-> self._summary]]
           /\ budget' = [budget EXCEPT !.calls = @ - 1]
           /\ IF r.raised
              THEN /\ inst' = [inst EXCEPT ![i] = AfterRaise(self, r.statistics)]
                   /\ UNCHANGED <<sink, window>>
              ELSE /\ inst' = [inst EXCEPT ![i] = AfterCall(self, r.statistics)]
                   /\ sink' = IF fired
                              THEN Append(sink, ComputeMean(SummaryAdd(self._summary,
                                                                       r.statistics)))
                              ELSE sink
                   /\ window' = [window EXCEPT ![i] =
                                    IF fired THEN <<>> ELSE Append(@, r.statistics)]
    /\ UNCHANGED <<given, heap, model, registered>>

\* -------------------------------------------------------- register_statistics

\* self._statistics[name] = function, on a dict that only takes new values
\* for the names it has.
DictSetExisting(d, name, function) ==
    IF name \in DictNames(d) THEN DictSet(d, name, function) ELSE d

RegistryAfter(d, name, function) == DictSet(d, name, function)

\* The object after register_statistics: its fields are as they were.
SelfAfterRegisterCleared(self) == [self EXCEPT !._summary = DictSummary]

SelfAfterRegister(self) == self

RegNames == {Str("min"), Str("f")}

RegFunctions == {"max", "flat", "fail"}

\* ParameterStatistics.register_statistics(name, function) of instance i.
Register(i, name, function) ==
    /\ budget.host > 0
    /\ heap' = [heap EXCEPT ![inst[i]._statistics] = RegistryAfter(@, name, function)]
    /\ inst' = [inst EXCEPT ![i] = SelfAfterRegister(@)]
    /\ registered' = [registered EXCEPT ![i] =
                         Append(@, [name |-> name, function |-> function,
                                    new |-> name \notin DictNames(heap[inst[i]._statistics])])]
    /\ budget' = [budget EXCEPT !.host = @ - 1]
    /\ UNCHANGED <<given, model, sink, window, last>>

\* ------------------------------------------------------------------- the host

\* What a training iteration leaves: data d after the optimizer's step and
\* gradients g after the backward pass, or None after
\* zero_grad(set_to_none=True).
TrainStates ==
    LET d1 == << <<Nums(<<4, 0>>), Nums(<<3>>)>>, <<Nums(<<3, 0, 0>>)>> >>
        dnan == << << <<NaN, Num(2)>>, Nums(<<1>>)>>, <<Nums(<<1, 0, 2>>)>> >>
        g1 == << <<Nums(<<2, 2>>), Nums(<<0>>)>>, <<Nums(<<0, 0, 3>>)>> >>
        gnan == << << <<Num(4), NaN>>, Nums(<<0>>)>>, <<Nums(<<0, 0, 3>>)>> >>
    IN  {<<d1, Some(g1)>>, <<dnan, Some(g1)>>, <<d1, Some(gnan)>>, <<d1, None>>}

\* One training iteration of the host.
TrainStep(dg) ==
    /\ budget.host > 0
    /\ model' = ModelOf(dg[1], dg[2])
    /\ budget' = [budget EXCEPT !.host = @ - 1]
    /\ UNCHANGED <<given, inst, heap, sink, window, last, registered>>

\* ------------------------------------------------------------ specifications

Prefixes == {None, Some(<<>>), Some(Str("p")), Some(<<"p", Slash, "grad">>)}

LinksArgs == {[list |-> FALSE, mods |-> <<1>>], [list |-> TRUE, mods |-> <<2, 1>>]}

StatisticsArgs == {"default", "none", "dict"}

\* The constructor's arguments: every prefix with every choice of links and
\* attributes, and every choice of the other arguments without a prefix.
Args ==
    [links : LinksArgs, statistics : {"default"},
     report_params : BOOLEAN, report_grads : BOOLEAN,
     prefix : Prefixes, trigger : {1}, skip_nan_params : {FALSE}]
    \cup
    [links : LinksArgs, statistics : StatisticsArgs,
     report_params : BOOLEAN, report_grads : BOOLEAN,
     prefix : {None}, trigger : {1}, skip_nan_params : BOOLEAN]

\* Arguments of the runs that follow the summary over several invocations.
WindowArgs ==
    [links : LinksArgs, statistics : {"default"},
     report_params : {TRUE}, report_grads : BOOLEAN,
     prefix : {None}, trigger : 1..MaxInterval, skip_nan_params : BOOLEAN]

\* The models an extension is constructed beside: before the first backward
\* pass, or after one.
InitialModels ==
    {ModelOf(InitialData, None),
     ModelOf(InitialData,
             Some(<< <<Nums(<<2, 2>>), Nums(<<0>>)>>, <<Nums(<<0, 0, 3>>)>> >>))}

\* No invocation yet.
NoCall ==
    [seq |-> 0, raised |-> FALSE, statistics |-> EmptyMap, emitted |-> <<>>,
     registry |-> <<>>, model |-> <<>>, summary |-> DictSummary]

InitWith(argss, mdl, b) ==
    /\ given = argss
    /\ inst = [i \in DOMAIN argss |-> New(i, argss[i])]
    /\ heap = HeapAfterNew(argss)
    /\ model = mdl
    /\ sink = <<>>
    /\ window = [i \in DOMAIN argss |-> <<>>]
    /\ last = [i \in DOMAIN argss |-> NoCall]
    /\ registered = [i \in DOMAIN argss |-> <<>>]
    /\ budget = b

\* One instance followed over several invocations.
Init ==
    \E a \in WindowArgs, mdl \in InitialModels :
        InitWith(<<a>>, mdl, [calls |-> MaxCalls, host |-> MaxHost])

\* One instance with any arguments beside any model, invoked once.
InitKeys ==
    \E a \in Args, mdl \in InitialModels \cup {ModelOf(dg[1], dg[2]) : dg \in TrainStates} :
        InitWith(<<a>>, mdl, [calls |-> KeyCalls, host |-> MaxHost])

\* Arguments of the runs with two instances: they differ in statistics.
InstArgs ==
    [links : {[list |-> FALSE, mods |-> <<1>>]}, statistics : StatisticsArgs,
     report_params : {TRUE}, report_grads : {FALSE},
     prefix : {None}, trigger : {1}, skip_nan_params : {FALSE}]

\* Two instances beside each other.
InitInst ==
    \E a1 \in InstArgs, a2 \in InstArgs, mdl \in InitialModels :
        InitWith(<<a1, a2>>, mdl, [calls |-> KeyCalls, host |-> MaxHost])

Next ==
    \/ \E i \in DOMAIN inst : Call(i)
    \/ \E i \in DOMAIN inst, name \in RegNames, function \in RegFunctions :
           Register(i, name, function)
    \/ \E dg \in TrainStates : TrainStep(dg)

Spec == Init /\ [][Next]_vars

SpecKeys == InitKeys /\ [][Next]_vars

SpecInst == InitInst /\ [][Next]_vars

\* ===================================================================== claims

\* The flattened value of attribute attr_name of parameter p of module m.
Flattened(mdl, m, p, attr_name) == GetAttr(mdl[m][p], attr_name).val

\* The passes the latest invocation of instance i made, in order.
Emitted(i) == last[i].emitted

\* Instance i has been invoked.
Called(i) == last[i].seq > 0

\* The latest invocation of instance i ran to its end.
Completed(i) == Called(i) /\ ~last[i].raised

\* param_name/attr_name/function_name, written out.
BaseName(e) ==
    Join(Join(e.item.param_name, e.item.attr_name), e.item.function_name)

\* ------------------------------------------------------------------------ C4

GradInfix == <<Slash, "grad", Slash>>

\* The symbols of string s.
Symbols(s) == {s[j] : j \in 1..Len(s)}

\* C6 as stated: with report_params=True and report_grads=False no report
\* key contains '/grad/', whatever the prefix and the names.
C6_NoGradAsStated ==
    \A i \in DOMAIN inst :
        (given[i].report_params /\ ~given[i].report_grads) =>
            \A k \in DOMAIN last[i].statistics : ~Contains(k, GradInfix)

\* C6 amended: with report_params=True and report_grads=False no pass reads
\* the attribute grad, every key's attribute component is data, and a key
\* contains '/grad/' only when the prefix, a parameter name or a function
\* name holds 'grad'.
C6_NoGradAttr ==
    \A i \in DOMAIN inst :
        (given[i].report_params /\ ~given[i].report_grads) =>
            /\ \A j \in DOMAIN Emitted(i) :
                   /\ Emitted(i)[j].item.attr_name = Str("data")
                   /\ EndsWith(Emitted(i)[j].key,
                               Join(Str("data"), Emitted(i)[j].item.function_name))
            /\ \A k \in DOMAIN last[i].statistics :
                   Contains(k, GradInfix) =>
                       \/ "grad" \in Symbols(inst[i]._prefix.val)
                       \/ \E j \in DOMAIN Emitted(i) :
                              "grad" \in Symbols(Emitted(i)[j].item.param_name)
                                  \cup Symbols(Emitted(i)[j].item.function_name)

\* Only data is reported, by an invocation that made entries, under a prefix
\* that holds 'grad'.
C6_Witness ==
    \E i \in DOMAIN inst :
        /\ Completed(i)
        /\ given[i].report_params /\ ~given[i].report_grads
        /\ inst[i]._prefix = Some(<<"p", Slash, "grad">>)
        /\ \E k \in DOMAIN last[i].statistics : Contains(k, GradInfix)

\* ------------------------------------------------------------------------ C2

EntryOf(e, k) ==
    IF e.value.tensor /\ Numel(e.value) > 1
    THEN LET n == CHOOSE n \in 0..(Numel(e.value) - 1) : k = IndexKey(e.key, n)
         IN  Tensor(<<e.value.elems[n + 1]>>)
    ELSE e.value

\* The place of a pass in the loops: link, parameter, attribute, function.
Rank(it) == <<it.link, it.p, it.a, it.f>>

Before(r1, r2) ==
    \E n \in 1..4 : r1[n] < r2[n] /\ \A q \in 1..(n - 1) : r1[q] = r2[q]

\* The passes of instance i that leave an entry under key k.
Makers(i, k) ==
    {j \in DOMAIN Emitted(i) : k \in KeysOf(Emitted(i)[j].key, Emitted(i)[j].value)}

Latest(S) == CHOOSE j \in S : \A q \in S : q <= j

Suffixed(statistics, key) ==
    {x \in DOMAIN statistics :
        /\ Len(x) = Len(key) + 2
        /\ SubSeq(x, 1, Len(key) + 1) = key \o <<Slash>>}

\* C3 as stated: a result of k > 1 elements puts exactly k entries for its
\* parameter, attribute and function into the flat mapping, under the base
\* key suffixed /0 ... /k-1, entry i holding element i, and none under the
\* base key itself; a result of one scalar is stored under the base key.
C3_ExpandAsStated ==
    \A i \in DOMAIN inst : \A j \in DOMAIN Emitted(i) :
        LET e == Emitted(i)[j]
            k == Numel(e.value)
        IN  Completed(i) =>
                IF e.value.tensor /\ k > 1
                THEN /\ Suffixed(last[i].statistics, e.key) =
                            {IndexKey(e.key, n) : n \in 0..(k - 1)}
                     /\ \A n \in 0..(k - 1) :
                            last[i].statistics[IndexKey(e.key, n)] =
                                Tensor(<<e.value.elems[n + 1]>>)
                     /\ e.key \notin DOMAIN last[i].statistics
                ELSE /\ e.key \in DOMAIN last[i].statistics
                     /\ last[i].statistics[e.key] = e.value

\* ------------------------------------------------------------------------ C5

\* The latest registration of instance i.
LatestRegistration(i) == registered[i][Len(registered[i])]

\* The latest registration of instance i gave a new name, and an invocation
\* has run with it since.
InvokedAfterNew(i) ==
    /\ registered[i] # <<>>
    /\ LatestRegistration(i).new
    /\ Called(i)
    /\ LatestRegistration(i).name \in DictNames(last[i].registry)

KeysIn(w) == UNION {DOMAIN w[j] : j \in DOMAIN w}

\* The sum and the number of the values w's mappings hold under key k.
RECURSIVE SumOver(_, _)
SumOver(w, k) ==
    IF w = <<>> THEN Num(0)
    ELSE IF k \in DOMAIN Head(w)
         THEN Add(Head(w)[k].elems[1], SumOver(Tail(w), k))
         ELSE SumOver(Tail(w), k)

CountOver(w, k) == Cardinality({j \in DOMAIN w : k \in DOMAIN w[j]})

\* Per key, the mean of its values over the mappings of w.
WindowMeans(w) ==
    [k \in KeysIn(w) |-> [num |-> SumOver(w, k), den |-> CountOver(w, k)]]

\* Instance i makes an invocation in this step, and it does not raise.
CallCompletes(i) == last'[i].seq # last[i].seq /\ ~last'[i].raised

C1_State ==
    \A i \in DOMAIN inst :
        /\ Len(window[i]) = inst[i]._trigger.count
        /\ Len(window[i]) < inst[i]._trigger.period
        /\ inst[i]._summary =
               [k \in KeysIn(window[i]) |->
                   [x |-> SumOver(window[i], k), n |-> CountOver(window[i], k)]]

C1_Step ==
    /\ (\A i \in DOMAIN inst : last'[i].seq = last[i].seq) => sink' = sink
    /\ \A i \in DOMAIN inst :
           CallCompletes(i) =>
               LET w == Append(window[i], last'[i].statistics)
               IN  IF Len(w) < inst[i]._trigger.period
                   THEN sink' = sink /\ window'[i] = w
                   ELSE /\ sink' = Append(sink, WindowMeans(w))
                        /\ window'[i] = <<>>
                        /\ inst'[i]._summary = DictSummary

\* C1: with a trigger that fires every N invocations, the sink gets nothing
\* from the invocations 1..N-1 of a window (those that run to their end);
\* from invocation N it gets one mapping that holds, per key, the mean of the
\* key's values over the invocations 1..N; and the summary is empty right
\* after, so that the summary is always that of the invocations since.
C1_Window == [](C1_State) /\ [][C1_Step]_vars

\* N = 2: one report was made, of the mean of two different values, and the
\* summary is empty.
C1_Witness ==
    /\ inst[1]._trigger.period = 2
    /\ inst[1]._links = <<1>>
    /\ Len(sink) = 1
    /\ <<"W", "/", "data", "/", "max">> \in DOMAIN sink[1]
    /\ sink[1][<<"W", "/", "data", "/", "max">>] = [num |-> Num(6), den |-> 2]
    /\ inst[1]._summary = DictSummary
    /\ budget.calls = MaxCalls - 2

\* ------------------------------------------------------------------------ C8

C8_Step ==
    \A i \in DOMAIN inst :
        /\ registered'[i] # registered[i] =>
               /\ inst'[i]._summary = inst[i]._summary
               /\ window'[i] = window[i]
               /\ sink' = sink
        /\ (CallCompletes(i) /\ Len(window[i]) + 1 = inst[i]._trigger.period) =>
               /\ last'[i].registry = heap[inst[i]._statistics]
               /\ sink'[Len(sink')] =
                      WindowMeans(Append(window[i], last'[i].statistics))

\* C8: register_statistics leaves the summary (and the sink) as they are,
\* also when it replaces the function of a name with values in the summary;
\* the mean reported at the next flush is that of the values the invocations
\* of the window made, each with the registry of its time.
C8_NotRetroactive == [][C8_Step]_vars

\* N = 2, W = [0, 2]: min was replaced by max between the two invocations,
\* and the mean reported for min is (0 + 2) / 2.
C8_Witness ==
    /\ inst[1]._trigger.period = 2
    /\ inst[1]._links = <<1>>
    /\ registered[1] = <<[name |-> Str("min"), function |-> "max", new |-> FALSE]>>
    /\ last[1].seq = 2
    /\ Len(sink) = 1
    /\ <<"W", "/", "data", "/", "min">> \in DOMAIN sink[1]
    /\ sink[1][<<"W", "/", "data", "/", "min">>] = [num |-> Num(2), den |-> 2]

\* ----------------------------------------------------------------------- C10

C10_Step ==
    \A i \in DOMAIN inst :
        (last'[i].seq # last[i].seq /\ last'[i].raised) =>
            /\ inst'[i] = inst[i]
            /\ sink' = sink
            /\ window' = window
            /\ heap' = heap

\* C10: an invocation that raises leaves the object as it was: the summary
\* holds what it held, the trigger was not asked, the sink got nothing.
C10_RaiseNoEffect == [][C10_Step]_vars

\* A registered function raised in an invocation that had computed pairs,
\* beside a summary that held values: the summary still holds them and no
\* others.
C10_Witness ==
    /\ last[1].raised
    /\ registered[1] = <<[name |-> Str("f"), function |-> "fail", new |-> TRUE]>>
    /\ last[1].statistics # EmptyMap
    /\ inst[1]._summary # DictSummary
    /\ inst[1]._summary = last[1].summary
    /\ inst[1]._trigger.count = 1

\* ------------------------------------------------------------------------ C7

\* The registry of instance i.
Registry(i) == heap[inst[i]._statistics]

C7_Step ==
    \A i \in DOMAIN inst :
        registered'[i] # registered[i] =>
            LET r == registered'[i][Len(registered'[i])]
            IN  /\ heap'[inst'[i]._statistics] = DictSet(Registry(i), r.name, r.function)
                /\ heap'[DefaultAddr] = heap[DefaultAddr]
                /\ heap'[CallerAddr] = heap[CallerAddr]
                /\ \A j \in DOMAIN inst \ {i} :
                       heap'[inst'[j]._statistics] = Registry(j)

\* C7: register_statistics on one instance changes that instance's registry
\* and leaves the class's default_statistics, the mapping the caller gave
\* the constructor and the registry of every other instance as they were.
C7_InstanceScoped ==
    /\ [](heap[DefaultAddr] = DefaultStatistics /\ heap[CallerAddr] = CallerStatistics)
    /\ [][C7_Step]_vars

\* Two instances were built with the default statistics; one registered a
\* function, and the other's registry and the class's are the default still.
C7_Witness ==
    /\ DOMAIN inst = {1, 2}
    /\ registered[1] = <<[name |-> Str("min"), function |-> "flat", new |-> FALSE]>>
    /\ registered[2] = <<>>
    /\ Registry(1) = DictSet(DefaultStatistics, Str("min"), "flat")
    /\ Registry(2) = DefaultStatistics
    /\ heap[DefaultAddr] = DefaultStatistics

====
